---- MODULE Spec2Model ----
(***************************************************************************)
(* Bithumb KRW market volume monitor: the market-data client with its     *)
(* retry loop (bithumb_api.py), the volume analyzer, the alerted-symbol   *)
(* store with its cache file and reset policy, and the monitoring loop    *)
(* with its failure backoff (main.py).                                    *)
(*                                                                         *)
(* Numbers: Python floats are modelled by exact values.  Volumes and      *)
(* prices are integers, a quotient is the pair <<numerator, denominator>> *)
(* and is compared by cross-multiplication.  Time is counted in hours.    *)
(***************************************************************************)
EXTENDS Integers, Sequences, FiniteSets, TLC

\* ------------------------------------------------------------------ bounds
\* The clock stops advancing at MaxTime hours.
MaxTime == 3
\* No sweep fails once the consecutive-failure counter has reached this.
MaxFailures == 5
\* API_MAX_RETRIES is drawn from 0..MaxRetries.
MaxRetries == 5
\* ALERT_RESET_HOURS is unset or drawn from 1..MaxResetHours.
MaxResetHours == 2
\* The functions taken alone get candle sequences of at most MaxLen
\* records and SMA windows of 1..MaxWindow.
MaxLen == 3
MaxWindow == 3
\* The exchange may return this many candles more than were asked for.
MaxExtra == 1

\* ------------------------------------------------------- program constants
\* check_symbol_volume skips a symbol with fewer candles than this.
MinCandles == 20
\* check_symbol_volume asks get_candlestick for count=50.
RequestedCandles == 50
\* The defaults of SMA_PERIOD, VOLUME_MULTIPLIER and API_MAX_RETRIES.
SmaPeriodDefault == 20
VolumeMultiplierDefault == 5
MaxRetriesDefault == 2
\* run_continuous: base_backoff = min(BackoffCap, BackoffUnit * 2^(failures-1)),
\* jitter in [0, min(JitterCap, base_backoff * 0.2)].
BackoffCap == 300
BackoffUnit == 30
JitterCap == 10
\* _request_json, in tenths of a second: base_delay = min(3.0, 0.3 * 2^(attempt-1)),
\* jitter in [0, 0.2].
DelayCap == 30
DelayUnit == 3
DelayJitter == 2

\* ---------------------------------------------------------------- values
\* The KRW market symbols the exchange may list, in sort order.
SymbolOrder == <<"BTC", "ETH">>
Symbols == {SymbolOrder[k] : k \in 1..Len(SymbolOrder)}
Rank(s) == CHOOSE k \in 1..Len(SymbolOrder) : SymbolOrder[k] = s

\* Optional[...]: None is the empty sequence, a value x is <<x>>.
None == <<>>
Some(x) == <<x>>

\* last_reset_time = None, alert_reset_hours = None.
NoTime == -1
NoReset == 0

Min(a, b) == IF a <= b THEN a ELSE b

RECURSIVE Pow2(_)
Pow2(n) == IF n <= 0 THEN 1 ELSE 2 * Pow2(n - 1)

\* sorted(...) of a set of symbols, as a sequence.
RECURSIVE SortedSeq(_)
SortedSeq(S) ==
  IF S = {} THEN <<>>
  ELSE LET m == CHOOSE x \in S : \A y \in S : Rank(x) <= Rank(y)
       IN  <<m>> \o SortedSeq(S \ {m})

Range(q) == {q[k] : k \in 1..Len(q)}

\* ------------------------------------------------- BithumbAPI._parse_candles
\* A raw record of the candlestick response: shape "list" (a positional
\* array of `fields` entries), "dict" (a field-named object) or "other";
\* numeric is FALSE when float() fails on one of its values.
RawCandle(t, price, vol) ==
  [shape |-> "list", fields |-> 6, numeric |-> TRUE,
   time |-> t, open |-> price, close |-> price, high |-> price, low |-> price,
   volume |-> vol]

Candle(r) ==
  [time |-> r.time, open |-> r.open, close |-> r.close, high |-> r.high,
   low |-> r.low, volume |-> r.volume]

\* The record is taken: a list of at least six entries, or a dict.
Accepted(r) == (r.shape = "list" /\ r.fields >= 6) \/ r.shape = "dict"

\* list.sort(key=time): a stable insertion of c into the sorted sequence q.
RECURSIVE InsertByTime(_, _)
InsertByTime(q, c) ==
  IF q = <<>> THEN <<c>>
  ELSE IF q[Len(q)].time <= c.time THEN Append(q, c)
  ELSE Append(InsertByTime(SubSeq(q, 1, Len(q) - 1), c), q[Len(q)])

RECURSIVE SortByTime(_)
SortByTime(q) ==
  IF q = <<>> THEN <<>>
  ELSE InsertByTime(SortByTime(SubSeq(q, 1, Len(q) - 1)), q[Len(q)])

\* [ok |-> FALSE] when a float() conversion raises (the exception leaves
\* _parse_candles), else the accepted records as candles, sorted by time.
parse_candles(raw) ==
  IF \E k \in 1..Len(raw) : Accepted(raw[k]) /\ ~raw[k].numeric
  THEN [ok |-> FALSE, candles |-> <<>>]
  ELSE [ok |-> TRUE,
        candles |-> LET taken == SelectSeq(raw, Accepted)
                    IN  SortByTime([k \in 1..Len(taken) |-> Candle(taken[k])])]

\* ---------------------------------------------------------- VolumeAnalyzer
RECURSIVE SumVolume(_)
SumVolume(q) == IF q = <<>> THEN 0 ELSE q[Len(q)].volume + SumVolume(SubSeq(q, 1, Len(q) - 1))

\* candles[-sma_period:]
LastN(q, n) == SubSeq(q, Len(q) - n + 1, Len(q))

\* None when there are fewer than sma_period candles, else sum / len.
calculate_volume_sma(candles, sma_period) ==
  IF candles = <<>> \/ Len(candles) < sma_period THEN None
  ELSE Some(<<SumVolume(LastN(candles, sma_period)), sma_period>>)

\* Mutant: the threshold must be exceeded, not reached.
check_volume_spike_strict(candles, current_volume, sma_period, volume_multiplier) ==
  LET result == [is_spike |-> FALSE, current_volume |-> 0, sma_volume |-> <<0, 1>>,
                 multiplier |-> <<0, 1>>, candles_needed |-> sma_period]
  IN
  IF candles = <<>> THEN result
  ELSE
    LET cur == IF current_volume = None THEN candles[Len(candles)].volume
               ELSE current_volume[1]
        sma == calculate_volume_sma(candles, sma_period)
    IN
    IF sma = None \/ sma[1][1] = 0
    THEN [result EXCEPT !.current_volume = cur,
                        !.candles_needed = sma_period - Len(candles)]
    ELSE [is_spike |-> cur * sma[1][2] > volume_multiplier * sma[1][1],
          current_volume |-> cur,
          sma_volume |-> sma[1],
          multiplier |-> <<cur * sma[1][2], sma[1][1]>>,
          candles_needed |-> sma_period]

\* Mutant: candles_needed is floored at zero.
check_volume_spike_floor(candles, current_volume, sma_period, volume_multiplier) ==
  LET result == [is_spike |-> FALSE, current_volume |-> 0, sma_volume |-> <<0, 1>>,
                 multiplier |-> <<0, 1>>, candles_needed |-> sma_period]
  IN
  IF candles = <<>> THEN result
  ELSE
    LET cur == IF current_volume = None THEN candles[Len(candles)].volume
               ELSE current_volume[1]
        sma == calculate_volume_sma(candles, sma_period)
    IN
    IF sma = None \/ sma[1][1] = 0
    THEN [result EXCEPT !.current_volume = cur,
                        !.candles_needed = IF sma_period > Len(candles)
                                           THEN sma_period - Len(candles) ELSE 0]
    ELSE [is_spike |-> cur * sma[1][2] >= volume_multiplier * sma[1][1],
          current_volume |-> cur,
          sma_volume |-> sma[1],
          multiplier |-> <<cur * sma[1][2], sma[1][1]>>,
          candles_needed |-> sma_period]

\* current_volume (override) is None or Some(v).
check_volume_spike(candles, current_volume, sma_period, volume_multiplier) ==
  LET result == [is_spike |-> FALSE, current_volume |-> 0, sma_volume |-> <<0, 1>>,
                 multiplier |-> <<0, 1>>, candles_needed |-> sma_period]
  IN
  IF candles = <<>> THEN result
  ELSE
    LET cur == IF current_volume = None THEN candles[Len(candles)].volume
               ELSE current_volume[1]
        sma == calculate_volume_sma(candles, sma_period)
    IN
    IF sma = None \/ sma[1][1] = 0
    THEN [result EXCEPT !.current_volume = cur,
                        !.candles_needed = sma_period - Len(candles)]
    ELSE [is_spike |-> cur * sma[1][2] >= volume_multiplier * sma[1][1],
          current_volume |-> cur,
          sma_volume |-> sma[1],
          multiplier |-> <<cur * sma[1][2], sma[1][1]>>,
          candles_needed |-> sma_period]

\* Mutant: price and timestamp are taken from the first candle.
analyze_market_first_candle(candles, symbol, sma_period, volume_multiplier) ==
  IF candles = <<>> THEN None
  ELSE
    IF Len(candles) >= sma_period
       /\ SumVolume(SubSeq(candles, Len(candles) - sma_period + 1, Len(candles))) # 0
       /\ candles[Len(candles)].volume * sma_period >=
            volume_multiplier
              * SumVolume(SubSeq(candles, Len(candles) - sma_period + 1, Len(candles)))
    THEN Some([symbol |-> symbol,
               current_volume |-> candles[Len(candles)].volume,
               sma_volume |-> <<SumVolume(SubSeq(candles, Len(candles) - sma_period + 1,
                                                 Len(candles))), sma_period>>,
               multiplier |-> <<candles[Len(candles)].volume * sma_period,
                                SumVolume(SubSeq(candles, Len(candles) - sma_period + 1,
                                                 Len(candles)))>>,
               current_price |-> candles[1].close,
               timestamp |-> candles[1].time])
    ELSE None

\* VolumeAnalyzer.analyze_market: None, or the analysis of a spike.
analyze_market(candles, symbol, sma_period, volume_multiplier) ==
  IF candles = <<>> THEN None
  ELSE
    LET a == check_volume_spike(candles, None, sma_period, volume_multiplier) IN
    IF a.is_spike
    THEN Some([symbol |-> symbol,
               current_volume |-> a.current_volume,
               sma_volume |-> a.sma_volume,
               multiplier |-> a.multiplier,
               current_price |-> candles[Len(candles)].close,
               timestamp |-> candles[Len(candles)].time])
    ELSE None

\* ------------------------------------------------------------- responses
\* The JSON a transport-level success carries.  shape: "dict" (a mapping),
\* "other" (a non-empty JSON value that is no mapping) or "empty" (a falsy
\* JSON value: null, {} or []); status: the payload's status code; codes:
\* the keys of the ticker payload's data; candles: the raw candle records.
Payload(shape, status, codes, candles) ==
  [shape |-> shape, status |-> status, codes |-> codes, candles |-> candles]

\* n candles at times 1..n: volume v each, the last one `last`, at `price`.
Batch(n, v, last, price) ==
  [k \in 1..n |-> RawCandle(k, price, IF k = n THEN last ELSE v)]

\* One record whose volume is not numeric, in an otherwise quiet batch.
BadBatch ==
  [k \in 1..MinCandles |->
     [RawCandle(k, 100, 10) EXCEPT !.numeric = (k # 1)]]

CandleBatches ==
  { Batch(MinCandles, 10, 10, 100),        \* quiet
    Batch(MinCandles - 1, 10, 70, 100),    \* a spike, one candle short
    Batch(MinCandles, 10, 70, 1),          \* a spike of notional 70
    Batch(MinCandles, 10, 70, 100),        \* a spike of notional 7000
    BadBatch }

MarketPayloads ==
  { Payload("empty", "", {}, <<>>),
    Payload("other", "", {}, <<>>),
    Payload("dict", "5500", {}, <<>>) }
  \cup { Payload("dict", "0000", S \cup {"date"}, <<>>) : S \in SUBSET Symbols }

CandlePayloads ==
  { Payload("empty", "", {}, <<>>),
    Payload("other", "", {}, <<>>),
    Payload("dict", "5500", {}, <<>>) }
  \cup { Payload("dict", "0000", {}, b) : b \in CandleBatches }

\* The ways one HTTP attempt fails: each is logged and retried alike.
FailureKinds == {"timeout", "network", "exception"}

\* Mutant: max_retries taken as the total number of attempts.
Attempts_NoFirst(max_retries) == max_retries

\* BithumbAPI._request_json: the number of attempts of one call.
Attempts(max_retries) == max_retries + 1

\* BithumbAPI.get_krw_markets on the data _request_json returned:
\* raised is TRUE when data.get fails on a value that is no mapping.
get_krw_markets(data) ==
  IF data = None \/ data[1].shape = "empty"
  THEN [raised |-> FALSE, markets |-> <<>>]
  ELSE IF data[1].shape # "dict"
  THEN [raised |-> TRUE, markets |-> <<>>]
  ELSE IF data[1].status = "0000"
  THEN [raised |-> FALSE, markets |-> SortedSeq(data[1].codes \ {"date"})]
  ELSE [raised |-> FALSE, markets |-> <<>>]

\* BithumbAPI.get_candlestick on the data _request_json returned.
get_candlestick(data) ==
  IF data = None \/ data[1].shape = "empty"
  THEN [raised |-> FALSE, candles |-> None]
  ELSE IF data[1].shape # "dict"
  THEN [raised |-> TRUE, candles |-> None]
  ELSE IF data[1].status = "0000"
  THEN LET p == parse_candles(data[1].candles)
       IN  IF p.ok THEN [raised |-> FALSE, candles |-> Some(p.candles)]
           ELSE [raised |-> TRUE, candles |-> None]
  ELSE [raised |-> FALSE, candles |-> None]

\* BithumbAPI.get_current_ticker on the data _request_json returned: the
\* payload's data mapping (here its keys), or None.
get_current_ticker(data) ==
  IF data = None \/ data[1].shape = "empty"
  THEN [raised |-> FALSE, ticker |-> None]
  ELSE IF data[1].shape # "dict"
  THEN [raised |-> TRUE, ticker |-> None]
  ELSE IF data[1].status = "0000"
  THEN [raised |-> FALSE, ticker |-> Some(data[1].codes)]
  ELSE [raised |-> FALSE, ticker |-> None]

\* Mutant: the minimum number of candles is the SMA window.
check_symbol_volume_window_minimum(data, symbol, sma_period, volume_multiplier, min_volume) ==
  LET r == get_candlestick(data) IN
  IF r.raised \/ r.candles = None THEN None
  ELSE IF r.candles[1] = <<>> \/ Len(r.candles[1]) < sma_period THEN None
  ELSE
    LET a == analyze_market(r.candles[1], symbol, sma_period, volume_multiplier) IN
    IF a = None THEN None
    ELSE
      LET notional_krw == a[1].current_volume * a[1].current_price IN
      IF min_volume > 0 /\ notional_krw < min_volume THEN None
      ELSE Some([symbol |-> a[1].symbol,
                 current_volume |-> a[1].current_volume,
                 sma_volume |-> a[1].sma_volume,
                 multiplier |-> a[1].multiplier,
                 current_price |-> a[1].current_price,
                 timestamp |-> a[1].timestamp,
                 notional_krw |-> notional_krw])

\* Mutant: the liquidity filter is not applied.
check_symbol_volume_unfiltered(data, symbol, sma_period, volume_multiplier, min_volume) ==
  LET r == get_candlestick(data) IN
  IF r.raised \/ r.candles = None THEN None
  ELSE IF r.candles[1] = <<>> \/ Len(r.candles[1]) < MinCandles THEN None
  ELSE
    LET a == analyze_market(r.candles[1], symbol, sma_period, volume_multiplier) IN
    IF a = None THEN None
    ELSE
      LET notional_krw == a[1].current_volume * a[1].current_price IN
      Some([symbol |-> a[1].symbol,
            current_volume |-> a[1].current_volume,
            sma_volume |-> a[1].sma_volume,
            multiplier |-> a[1].multiplier,
            current_price |-> a[1].current_price,
            timestamp |-> a[1].timestamp,
            notional_krw |-> notional_krw])

\* Mutant: a spike whose notional equals the minimum is discarded too.
check_symbol_volume_at_most(data, symbol, sma_period, volume_multiplier, min_volume) ==
  LET r == get_candlestick(data) IN
  IF r.raised \/ r.candles = None THEN None
  ELSE IF r.candles[1] = <<>> \/ Len(r.candles[1]) < MinCandles THEN None
  ELSE
    LET a == analyze_market(r.candles[1], symbol, sma_period, volume_multiplier) IN
    IF a = None THEN None
    ELSE
      LET notional_krw == a[1].current_volume * a[1].current_price IN
      IF min_volume > 0 /\ notional_krw <= min_volume THEN None
      ELSE Some([symbol |-> a[1].symbol,
                 current_volume |-> a[1].current_volume,
                 sma_volume |-> a[1].sma_volume,
                 multiplier |-> a[1].multiplier,
                 current_price |-> a[1].current_price,
                 timestamp |-> a[1].timestamp,
                 notional_krw |-> notional_krw])

\* BithumbVolumeMonitor.check_symbol_volume on that data: None, or the
\* analysis with its notional.  An exception of the fetch is caught here.
check_symbol_volume(data, symbol, sma_period, volume_multiplier, min_volume) ==
  LET r == get_candlestick(data) IN
  IF r.raised \/ r.candles = None THEN None
  ELSE IF r.candles[1] = <<>> \/ Len(r.candles[1]) < MinCandles THEN None
  ELSE
    LET a == analyze_market(r.candles[1], symbol, sma_period, volume_multiplier) IN
    IF a = None THEN None
    ELSE
      LET notional_krw == a[1].current_volume * a[1].current_price IN
      IF min_volume > 0 /\ notional_krw < min_volume THEN None
      ELSE Some([symbol |-> a[1].symbol,
                 current_volume |-> a[1].current_volume,
                 sma_volume |-> a[1].sma_volume,
                 multiplier |-> a[1].multiplier,
                 current_price |-> a[1].current_price,
                 timestamp |-> a[1].timestamp,
                 notional_krw |-> notional_krw])

\* ------------------------------------------------------------ alert store
\* The file at alert_cache_path: "missing", "corrupt" (no JSON), "notlist"
\* (JSON, but no list) or "list" with the JSON array in data.
CacheFile(kind, data) == [kind |-> kind, data |-> data]

\* _load_alert_cache: the truthy entries of a list, else the empty set.
load_alert_cache(file) ==
  IF file.kind = "list" THEN {x \in Range(file.data) : x # ""} ELSE {}

\* _save_alert_cache: the sorted list, written to the temporary file and
\* moved over the target; a failed write leaves the target as it was.
save_alert_cache(file, alerted, write_ok) ==
  IF write_ok THEN CacheFile("list", SortedSeq(alerted)) ELSE file

\* What a write that was cut short leaves: the prefix of a JSON array is no
\* JSON.
Truncated == CacheFile("corrupt", <<>>)

\* Mutant: the payload is written to the target file itself.
write_in_place(target, temp, content) == [target |-> content, temp |-> temp]

\* _save_alert_cache, lines 114-115: temp_path.write_text(...) writes to
\* the temporary file; the target is not touched.
write_text(target, temp, content) == [target |-> target, temp |-> content]

\* _save_alert_cache, line 116: temp_path.replace(alert_cache_path).
replace_file(target, temp) == [target |-> temp, temp |-> CacheFile("missing", <<>>)]

\* Mutant: the interval must be exceeded, not reached.
ResetDue_Strict(last, t, hours) == t - last > hours

\* _reset_alerted_symbols_if_needed, the test of line 183.
ResetDue(last, t, hours) == t - last >= hours

\* Mutant: the first call does not establish the reset time.
reset_never_established(alerted, last, t, hours) ==
  IF hours = NoReset \/ last = NoTime
  THEN [alerted |-> alerted, last |-> last, fired |-> FALSE, save |-> FALSE]
  ELSE IF ResetDue(last, t, hours)
  THEN [alerted |-> {}, last |-> t, fired |-> TRUE, save |-> TRUE]
  ELSE [alerted |-> alerted, last |-> last, fired |-> FALSE, save |-> FALSE]

\* Mutant: the reset clears the set in memory and does not save it.
reset_without_save(alerted, last, t, hours) ==
  IF hours = NoReset
  THEN [alerted |-> alerted, last |-> last, fired |-> FALSE, save |-> FALSE]
  ELSE IF last = NoTime
  THEN [alerted |-> alerted, last |-> t, fired |-> FALSE, save |-> FALSE]
  ELSE IF ResetDue(last, t, hours)
  THEN [alerted |-> {}, last |-> t, fired |-> TRUE, save |-> FALSE]
  ELSE [alerted |-> alerted, last |-> last, fired |-> FALSE, save |-> FALSE]

\* _reset_alerted_symbols_if_needed: the alerted set and the reset time it
\* leaves, whether the reset fired and whether _save_alert_cache is called.
reset_alerted_symbols_if_needed(alerted, last, t, hours) ==
  IF hours = NoReset
  THEN [alerted |-> alerted, last |-> last, fired |-> FALSE, save |-> FALSE]
  ELSE IF last = NoTime
  THEN [alerted |-> alerted, last |-> t, fired |-> FALSE, save |-> FALSE]
  ELSE IF ResetDue(last, t, hours)
  THEN [alerted |-> {}, last |-> t, fired |-> TRUE, save |-> TRUE]
  ELSE [alerted |-> alerted, last |-> last, fired |-> FALSE, save |-> FALSE]

\* Mutant: no dedup check.
AlreadyAlerted_Never(symbol, alerted) == FALSE

\* send_alert_if_needed after the reset: is the notifier skipped?
AlreadyAlerted(symbol, alerted) == symbol \in alerted

\* Mutant: the symbol is recorded whatever the notifier answered.
after_send_always(alerted, symbol, success) ==
  [alerted |-> alerted \cup {symbol}, save |-> TRUE]

\* send_alert_if_needed, lines 210-218: the alerted set after the
\* notifier answered, and whether _save_alert_cache is called.
after_send(alerted, symbol, success) ==
  IF success THEN [alerted |-> alerted \cup {symbol}, save |-> TRUE]
  ELSE [alerted |-> alerted, save |-> FALSE]

\* ---------------------------------------------------------- run_continuous
\* Mutant: the exponential backoff without its cap.
BaseBackoff_Uncapped(failures) == BackoffUnit * Pow2(failures - 1)

\* base_backoff = min(300, 30 * (2 ** (consecutive_failures - 1)))
BaseBackoff(failures) == Min(BackoffCap, BackoffUnit * Pow2(failures - 1))

\* int(base_backoff + jitter), jitter = random.uniform(0, min(10, base * 0.2)):
\* the whole seconds the jitter can add.
JitterSeconds(base) == 0..Min(JitterCap, base \div 5)

\* consecutive_failures after a sweep: reset when it completed.
FailuresAfter(failures, raised) == IF raised THEN failures + 1 ELSE 0

\* Mutant: an empty symbol list is raised as an error.
AfterMarkets_EmptyRaises(r) ==
  IF r.raised \/ r.markets = <<>> THEN "raise" ELSE "loop"

\* monitor_once after the symbol list: "raise", "return" or "loop".
AfterMarkets(r) ==
  IF r.raised THEN "raise"
  ELSE IF r.markets = <<>> THEN "return"
  ELSE "loop"

\* Mutant: an exception of the check leaves check_symbol_volume.
check_propagates_uncaught(raised) == raised

\* check_symbol_volume, lines 165-167: does an exception raised under its
\* try leave the function?  except Exception returns None instead.
check_propagates(raised) == FALSE

\* Mutant: a payload with an error status is treated like a failed attempt.
ReturnsJson_IfStatusOk(p) == p.shape = "dict" => p.status = "0000"

\* _request_json, line 41: an attempt whose HTTP status is good returns
\* response.json(), whatever the JSON holds.
ReturnsJson(p) == TRUE

\* Mutant: the exponential delay without its cap.
RequestBaseDelay_Uncapped(attempt) == DelayUnit * Pow2(attempt - 1)

\* _request_json, line 50: base_delay after failed attempt `attempt`.
RequestBaseDelay(attempt) == Min(DelayCap, DelayUnit * Pow2(attempt - 1))

\* _request_json, line 51: random.uniform(0, 0.2).
RequestJitter == 0..DelayJitter

\* ------------------------------------------------------------------ state
VARIABLES
  pc,                    \* where the main thread is
  mode,                  \* RUN_ONCE: "once" or "continuous"
  alert_reset_hours,     \* ALERT_RESET_HOURS, NoReset when unset
  min_krw_volume,        \* MIN_KRW_VOLUME
  max_retries,           \* API_MAX_RETRIES
  alerted_symbols,       \* self.alerted_symbols
  last_reset_time,       \* self.last_reset_time, NoTime when None
  cache_file,            \* the file at self.alert_cache_path
  temp_file,             \* the file at alert_cache_path + '.tmp'
  last_saved,            \* the set of the last save that completed (at first: loaded)
  now,                   \* datetime.now(), in hours
  symbols,               \* monitor_once: the symbol list of the sweep
  i,                     \* monitor_once: the index of the symbol in hand
  analysis,              \* monitor_once: what check_symbol_volume returned
  consecutive_failures,  \* run_continuous
  base_backoff,          \* run_continuous: of the wait in progress, else 0
  wait_seconds,          \* run_continuous: of the wait in progress, else 0
  req_for,               \* _request_json: called for "markets" or "candles"
  req_log,               \* _request_json: the outcome of each attempt so far
  data,                  \* what _request_json returned
  base_delay,            \* _request_json: base of the last delay slept, in tenths of a second
  jitter_delay,          \* _request_json: jitter of the last delay slept, in tenths
  arg,                   \* a function under test: its arguments
  ret,                   \* a function under test: None, or what it returned
  exit_exc,              \* the exception in flight while finally runs
  \* what has happened (read by the properties only)
  interrupted_at,        \* where the KeyboardInterrupt arrived, else "none"
  markets_result,        \* get_krw_markets in this sweep: "none", "returned", "raised"
  checked,               \* the symbols whose candles this sweep asked for
  cur,                   \* per symbol: its alerting step in this sweep
  prev,                  \* per symbol: its alerting step in the sweep before
  sweep_store,           \* set, reset time and file when the sweep began; None
                         \* once a symbol of the sweep reaches the alerting step
  step_alerted,          \* the alerted set when the alerting step began
  step_file,             \* the cache file when the alerting step began
  reset_fired,           \* the alerting step in hand cleared the set
  last_sweep,            \* "none", or how the last sweep ended
  exit_saved             \* the finally clause of run_continuous saved: "no", "yes"

config == <<mode, alert_reset_hours, min_krw_volume, max_retries>>
store == <<alerted_symbols, last_reset_time, cache_file, temp_file, last_saved>>
sweep == <<symbols, i, analysis, markets_result, checked, cur, prev, sweep_store>>
step == <<step_alerted, step_file, reset_fired>>
retry_loop == <<req_for, req_log, base_delay, jitter_delay>>
request == <<retry_loop, data>>
call == <<arg, ret>>
backoff == <<consecutive_failures, base_backoff, wait_seconds>>
exit == <<exit_exc, interrupted_at, exit_saved>>
vars == <<pc, config, store, now, sweep, step, request, backoff, exit,
          last_sweep, call>>

\* An alerting step that did not happen.
NoStep == [out |-> "none", calls |-> 0, epoch |-> NoTime]
NoSteps == [s \in Symbols |-> NoStep]

InitialFiles ==
  { CacheFile("missing", <<>>), CacheFile("corrupt", <<>>) }
  \cup { CacheFile("list", SortedSeq(S)) : S \in SUBSET Symbols }

\* What _request_json can hand to its caller: None, or the JSON received.
RequestResults(what) ==
  {None} \cup {Some(p) : p \in IF what = "markets" THEN MarketPayloads
                                ELSE CandlePayloads}

\* The state main() has built when the monitor is constructed: the
\* validated configuration and the alerted set loaded from the cache file.
Init ==
  /\ pc = "main"
  /\ mode \in {"once", "continuous"}
  /\ alert_reset_hours \in {NoReset} \cup 1..MaxResetHours
  /\ min_krw_volume \in {0, 7000}
  /\ max_retries = MaxRetriesDefault
  /\ cache_file \in InitialFiles
  /\ alerted_symbols = load_alert_cache(cache_file)
  /\ temp_file = CacheFile("missing", <<>>)
  /\ last_saved = alerted_symbols
  /\ last_reset_time = NoTime
  /\ now = 0
  /\ symbols = <<>> /\ i = 0 /\ analysis = None
  /\ consecutive_failures = 0 /\ base_backoff = 0 /\ wait_seconds = 0
  /\ req_for = "markets" /\ req_log = <<>> /\ data = None
  /\ base_delay = 0 /\ jitter_delay = 0
  /\ arg = None /\ ret = None
  /\ exit_exc = "none" /\ interrupted_at = "none" /\ exit_saved = "no"
  /\ markets_result = "none"
  /\ checked = <<>>
  /\ cur = NoSteps
  /\ prev = NoSteps
  /\ sweep_store = None
  /\ step_alerted = {} /\ step_file = CacheFile("missing", <<>>)
  /\ reset_fired = FALSE
  /\ last_sweep = "none"

\* ---------------------------------------------------------------- helpers
\* time.sleep lets the clock advance.
Advance(d) == now' = Min(MaxTime, now + d)

\* monitor_once has returned: run_continuous resets the counter and sleeps,
\* a single-shot run is over.
SweepCompletes ==
  /\ pc' = IF mode = "continuous" THEN "sleep" ELSE "done"
  /\ consecutive_failures' = FailuresAfter(consecutive_failures, FALSE)
  /\ last_sweep' = "completed"
  /\ UNCHANGED <<base_backoff, wait_seconds>>

\* An exception left monitor_once: run_continuous counts it and waits,
\* a single-shot run dies of it.
SweepRaises ==
  /\ last_sweep' = "raised"
  /\ IF mode = "continuous"
     THEN /\ consecutive_failures' = FailuresAfter(consecutive_failures, TRUE)
          /\ base_backoff' = BaseBackoff(consecutive_failures')
          /\ \E j \in JitterSeconds(base_backoff') :
               wait_seconds' = base_backoff' + j
          /\ pc' = "backoff"
     ELSE /\ pc' = "crashed"
          /\ UNCHANGED backoff

\* run_continuous, where a KeyboardInterrupt is caught by the inner try.
InTry == {"sweep", "check", "alert", "dedup", "delay", "sleep"}

\* Mutant: the cache is saved after the loop, not in a finally clause.
on_interrupt_no_finally(at, run_mode) ==
  IF run_mode = "once" THEN [pc |-> "crashed", exc |-> "KeyboardInterrupt"]
  ELSE IF at \in {"sweep", "check", "alert", "dedup", "delay", "sleep"}
  THEN [pc |-> "finally", exc |-> "none"]
  ELSE IF at = "backoff" THEN [pc |-> "raised", exc |-> "KeyboardInterrupt"]
  ELSE [pc |-> "aborted", exc |-> "KeyboardInterrupt"]

\* Where a KeyboardInterrupt takes the thread, and the exception then in
\* flight: the inner try catches it and breaks; in the backoff wait, inside
\* the except handler, only the finally clause sees it; before the try
\* (the startup test) and in a single-shot run nothing does.
on_interrupt(at, run_mode) ==
  IF run_mode = "once" THEN [pc |-> "crashed", exc |-> "KeyboardInterrupt"]
  ELSE IF at \in InTry THEN [pc |-> "finally", exc |-> "none"]
  ELSE IF at = "backoff" THEN [pc |-> "finally", exc |-> "KeyboardInterrupt"]
  ELSE [pc |-> "aborted", exc |-> "KeyboardInterrupt"]

\* The record of the alerting step in hand is dropped.
EndStep ==
  /\ step_alerted' = {}
  /\ step_file' = CacheFile("missing", <<>>)
  /\ reset_fired' = FALSE

\* The stack unwinds: the locals of monitor_once and run_continuous are gone.
Unwind ==
  /\ symbols' = <<>> /\ i' = 0 /\ analysis' = None /\ data' = None
  /\ markets_result' = "none"
  /\ checked' = <<>> /\ cur' = NoSteps /\ prev' = NoSteps
  /\ sweep_store' = None
  /\ EndStep
  /\ consecutive_failures' = 0 /\ base_backoff' = 0 /\ wait_seconds' = 0
  /\ last_sweep' = "none"

\* _save_alert_cache when `save`.  The disk takes the write: a write that
\* fails is logged and leaves the file as it was.
Persist(save, alerted) ==
  /\ cache_file' = IF save THEN save_alert_cache(cache_file, alerted, TRUE)
                   ELSE cache_file
  /\ temp_file' = IF save THEN CacheFile("missing", <<>>) ELSE temp_file
  /\ last_saved' = IF save THEN alerted ELSE last_saved

\* ---------------------------------------------------------------- actions
\* main(): RUN_ONCE selects monitor_once or run_continuous.
Main ==
  /\ pc = "main"
  /\ pc' = IF mode = "once" THEN "sweep" ELSE "startup"
  /\ UNCHANGED <<call, config, store, now, sweep, step, request, backoff, exit,
                 last_sweep>>

\* run_continuous before its try: the startup test message, when asked for.
Startup ==
  /\ pc = "startup"
  /\ \E send_startup_test \in BOOLEAN : pc' = "sweep"
  /\ UNCHANGED <<call, config, store, now, sweep, step, request, backoff, exit,
                 last_sweep>>

\* monitor_once, lines 225-233: the symbol list is fetched; an exception of
\* get_krw_markets leaves the sweep, an empty list ends it, else the loop
\* starts at the first symbol.
FetchMarkets ==
  /\ pc = "sweep"
  /\ prev' = cur
  /\ cur' = NoSteps
  /\ checked' = <<>>
  /\ analysis' = None
  /\ sweep_store' = Some(<<alerted_symbols, last_reset_time, cache_file>>)
  /\ \E d \in RequestResults("markets") :
       LET r == get_krw_markets(d)
           next == AfterMarkets(r)
       IN
       /\ next = "raise" => consecutive_failures < MaxFailures
       /\ symbols' = r.markets
       /\ markets_result' = IF r.raised THEN "raised" ELSE "returned"
       /\ CASE next = "raise" -> SweepRaises /\ i' = 0
            [] next = "return" -> SweepCompletes /\ i' = 0
            [] OTHER -> /\ i' = 1
                        /\ pc' = "check"
                        /\ UNCHANGED <<backoff, last_sweep>>
  /\ UNCHANGED <<call, config, store, now, step, request, exit>>

\* monitor_once, line 236: check_symbol_volume fetches the candles of
\* symbols[i]; a spike goes to send_alert_if_needed, all else to the delay.
CheckSymbol ==
  /\ pc = "check"
  /\ checked' = Append(checked, symbols[i])
  /\ \E d \in RequestResults("candles") :
       /\ data' = d
       /\ IF check_propagates(get_candlestick(d).raised)
          THEN /\ consecutive_failures < MaxFailures
               /\ analysis' = None
               /\ SweepRaises
               /\ UNCHANGED <<step, sweep_store>>
          ELSE /\ analysis' = check_symbol_volume(d, symbols[i], SmaPeriodDefault,
                                                  VolumeMultiplierDefault,
                                                  min_krw_volume)
               /\ IF analysis' # None
                  THEN /\ pc' = "alert"
                       /\ step_alerted' = alerted_symbols
                       /\ step_file' = cache_file
                       /\ sweep_store' = None
                       /\ UNCHANGED reset_fired
                  ELSE /\ pc' = "delay"
                       /\ UNCHANGED <<step, sweep_store>>
               /\ UNCHANGED <<backoff, last_sweep>>
  /\ UNCHANGED <<call, config, store, now, symbols, i, markets_result, cur, prev,
                 retry_loop, exit>>

\* send_alert_if_needed, first part: _reset_alerted_symbols_if_needed.
AlertReset ==
  /\ pc = "alert"
  /\ LET r == reset_alerted_symbols_if_needed(alerted_symbols, last_reset_time,
                                              now, alert_reset_hours)
     IN
     /\ alerted_symbols' = r.alerted
     /\ last_reset_time' = r.last
     /\ reset_fired' = r.fired
     /\ Persist(r.save, r.alerted)
  /\ pc' = "dedup"
  /\ UNCHANGED <<call, config, now, sweep, step_alerted, step_file, request, backoff,
                 exit, last_sweep>>

\* send_alert_if_needed, second part: the dedup check, the notifier, and on
\* its success the symbol is recorded and the store saved.
AlertSend ==
  /\ pc = "dedup"
  /\ LET s == analysis[1].symbol IN
     IF AlreadyAlerted(s, alerted_symbols)
     THEN /\ cur' = [cur EXCEPT ![s] = [out |-> "skipped", calls |-> @.calls,
                                        epoch |-> last_reset_time]]
          /\ UNCHANGED store
     ELSE \E success \in BOOLEAN :
            LET r == after_send(alerted_symbols, s, success) IN
            /\ alerted_symbols' = r.alerted
            /\ Persist(r.save, r.alerted)
            /\ cur' = [cur EXCEPT ![s] = [out |-> IF success THEN "ok" ELSE "failed",
                                          calls |-> @.calls + 1,
                                          epoch |-> last_reset_time]]
            /\ UNCHANGED last_reset_time
  /\ pc' = "delay"
  /\ UNCHANGED <<call, config, now, symbols, i, analysis, markets_result, checked,
                 prev, sweep_store, step, request, backoff, exit, last_sweep>>

\* monitor_once: time.sleep(api_delay), then the next symbol or the end.
Delay ==
  /\ pc = "delay"
  /\ \E d \in 0..1 : Advance(d)
  /\ analysis' = None
  /\ data' = None
  /\ EndStep
  /\ IF i < Len(symbols)
     THEN /\ i' = i + 1
          /\ pc' = "check"
          /\ UNCHANGED <<backoff, last_sweep>>
     ELSE /\ SweepCompletes
          /\ UNCHANGED i
  /\ UNCHANGED <<call, config, store, symbols, markets_result, checked, cur, prev,
                 sweep_store, retry_loop, exit>>

\* run_continuous: time.sleep(check_interval), then the next sweep.
Sleep ==
  /\ pc = "sleep"
  /\ \E d \in 0..1 : Advance(d)
  /\ pc' = "sweep"
  /\ UNCHANGED <<call, config, store, sweep, step, request, backoff, exit,
                 last_sweep>>

\* run_continuous: time.sleep(wait_seconds) is over, the loop tries again.
BackoffWait ==
  /\ pc = "backoff"
  /\ \E d \in 0..1 : Advance(d)
  /\ base_backoff' = 0
  /\ wait_seconds' = 0
  /\ pc' = "sweep"
  /\ UNCHANGED <<call, config, store, sweep, step, request, consecutive_failures,
                 exit, last_sweep>>

\* A KeyboardInterrupt reaches the main thread.
Interrupt ==
  /\ pc \in InTry \cup {"backoff", "startup"}
  /\ LET r == on_interrupt(pc, mode) IN
     /\ pc' = r.pc
     /\ exit_exc' = r.exc
  /\ interrupted_at' = pc
  /\ Unwind
  /\ UNCHANGED <<call, config, store, now, retry_loop, exit_saved>>

\* run_continuous: the finally clause saves the cache; the function then
\* returns, or the exception in flight leaves it.
Finally ==
  /\ pc = "finally"
  /\ Persist(TRUE, alerted_symbols)
  /\ exit_saved' = "yes"
  /\ pc' = IF exit_exc = "none" THEN "returned" ELSE "raised"
  /\ UNCHANGED <<call, config, alerted_symbols, last_reset_time, now, sweep, step,
                 request, backoff, exit_exc, interrupted_at, last_sweep>>

Next ==
  \/ Main
  \/ Startup
  \/ FetchMarkets
  \/ CheckSymbol
  \/ AlertReset
  \/ AlertSend
  \/ Delay
  \/ Sleep
  \/ BackoffWait
  \/ Interrupt
  \/ Finally

Spec == Init /\ [][Next]_vars

\* ----------------------------------------------- BithumbAPI._request_json
\* The except clauses of the attempt: requests.exceptions.Timeout,
\* requests.exceptions.RequestException and Exception take every failure.
Caught(kind) == kind \in {"timeout", "network", "exception"}

Payloads(what) == IF what = "candles" THEN CandlePayloads ELSE MarketPayloads

\* A client built with max_retries, about to call _request_json for one of
\* its three endpoints.
InitRequest ==
  /\ pc = "req"
  /\ max_retries \in 0..MaxRetries
  /\ req_for \in {"markets", "candles", "ticker"}
  /\ req_log = <<>> /\ data = None
  /\ base_delay = 0 /\ jitter_delay = 0
  /\ arg = None /\ ret = None
  /\ mode = "continuous" /\ alert_reset_hours = NoReset /\ min_krw_volume = 0
  /\ cache_file = CacheFile("missing", <<>>)
  /\ temp_file = CacheFile("missing", <<>>)
  /\ last_saved = {}
  /\ alerted_symbols = {}
  /\ last_reset_time = NoTime
  /\ now = 0
  /\ symbols = <<>> /\ i = 0 /\ analysis = None
  /\ consecutive_failures = 0 /\ base_backoff = 0 /\ wait_seconds = 0
  /\ exit_exc = "none" /\ interrupted_at = "none" /\ exit_saved = "no"
  /\ markets_result = "none"
  /\ checked = <<>>
  /\ cur = NoSteps
  /\ prev = NoSteps
  /\ sweep_store = None
  /\ step_alerted = {} /\ step_file = CacheFile("missing", <<>>)
  /\ reset_fired = FALSE
  /\ last_sweep = "none"

\* An attempt succeeds at transport level: response.json() is returned.
RequestOk ==
  /\ pc = "req"
  /\ Len(req_log) < Attempts(max_retries)
  /\ req_log' = Append(req_log, "ok")
  /\ \E p \in Payloads(req_for) :
       /\ data' = IF ReturnsJson(p) THEN Some(p) ELSE None
       /\ pc' = IF ReturnsJson(p) \/ Len(req_log') >= Attempts(max_retries)
                THEN "resp" ELSE "req"
  /\ UNCHANGED <<call, config, store, now, sweep, step, req_for, base_delay,
                 jitter_delay, backoff, exit, last_sweep>>

\* An attempt fails: the failure is logged; the loop sleeps and goes on,
\* or was at its last attempt and returns None.
RequestFail ==
  /\ pc = "req"
  /\ Len(req_log) < Attempts(max_retries)
  /\ \E kind \in FailureKinds :
       /\ req_log' = Append(req_log, kind)
       /\ IF Caught(kind) /\ Len(req_log') < Attempts(max_retries)
          THEN /\ pc' = "req"
               /\ base_delay' = RequestBaseDelay(Len(req_log'))
               /\ jitter_delay' \in RequestJitter
          ELSE /\ pc' = IF Caught(kind) THEN "resp" ELSE "raised"
               /\ UNCHANGED <<base_delay, jitter_delay>>
  /\ data' = None
  /\ UNCHANGED <<call, config, store, now, sweep, step, req_for, backoff, exit,
                 last_sweep>>

\* The caller has the result; the client is called again.
RequestReturn ==
  /\ pc = "resp"
  /\ pc' = "req"
  /\ req_for' \in {"markets", "candles", "ticker"}
  /\ req_log' = <<>>
  /\ data' = None
  /\ base_delay' = 0 /\ jitter_delay' = 0
  /\ UNCHANGED <<call, config, store, now, sweep, step, backoff, exit, last_sweep>>

NextRequest ==
  \/ RequestOk
  \/ RequestFail
  \/ RequestReturn

SpecRequest == InitRequest /\ [][NextRequest]_vars

\* --------------------------------------- _save_alert_cache, step by step
\* The parts of the state a specification of one component leaves at rest.
MonitorAtRest ==
  /\ mode = "continuous" /\ alert_reset_hours = NoReset /\ min_krw_volume = 0
  /\ last_reset_time = NoTime
  /\ now = 0
  /\ symbols = <<>> /\ i = 0 /\ analysis = None
  /\ consecutive_failures = 0 /\ base_backoff = 0 /\ wait_seconds = 0
  /\ exit_exc = "none" /\ interrupted_at = "none" /\ exit_saved = "no"
  /\ markets_result = "none"
  /\ checked = <<>>
  /\ cur = NoSteps
  /\ prev = NoSteps
  /\ sweep_store = None
  /\ step_alerted = {} /\ step_file = CacheFile("missing", <<>>)
  /\ reset_fired = FALSE
  /\ last_sweep = "none"

RequestAtRest ==
  /\ max_retries = MaxRetriesDefault
  /\ req_for = "markets" /\ req_log = <<>> /\ data = None
  /\ base_delay = 0 /\ jitter_delay = 0

\* A monitor constructed on a cache file; a temporary file may be left
\* over from a run that died.
InitCache ==
  /\ pc = "cache_idle"
  /\ cache_file \in InitialFiles
  /\ temp_file \in {CacheFile("missing", <<>>), Truncated}
  /\ alerted_symbols = load_alert_cache(cache_file)
  /\ last_saved = alerted_symbols
  /\ arg = None /\ ret = None
  /\ MonitorAtRest
  /\ RequestAtRest

CacheFrame ==
  UNCHANGED <<call, config, last_reset_time, now, sweep, step, request, backoff,
              exit, last_sweep>>

\* A notification or a reset changes the set; _save_alert_cache is called.
CacheMutate ==
  /\ pc = "cache_idle"
  /\ \E S \in SUBSET Symbols : alerted_symbols' = S
  /\ pc' = "cache_save"
  /\ UNCHANGED <<cache_file, temp_file, last_saved>>
  /\ CacheFrame

\* write_text has begun: the temporary file holds a part of the payload.
SaveWriting ==
  /\ pc = "cache_save"
  /\ LET w == write_text(cache_file, temp_file, Truncated) IN
     cache_file' = w.target /\ temp_file' = w.temp
  /\ pc' = "cache_writing"
  /\ UNCHANGED <<alerted_symbols, last_saved>>
  /\ CacheFrame

\* write_text is done: the temporary file holds the sorted list.
SaveWritten ==
  /\ pc = "cache_writing"
  /\ LET w == write_text(cache_file, temp_file,
                         CacheFile("list", SortedSeq(alerted_symbols))) IN
     cache_file' = w.target /\ temp_file' = w.temp
  /\ pc' = "cache_written"
  /\ UNCHANGED <<alerted_symbols, last_saved>>
  /\ CacheFrame

\* The temporary file is moved over the target: the save is complete.
SaveReplace ==
  /\ pc = "cache_written"
  /\ LET r == replace_file(cache_file, temp_file) IN
     cache_file' = r.target /\ temp_file' = r.temp
  /\ last_saved' = alerted_symbols
  /\ pc' = "cache_idle"
  /\ UNCHANGED alerted_symbols
  /\ CacheFrame

\* mkdir, write_text or replace raises: the exception is logged and
\* _save_alert_cache returns with the target as it was.
SaveFails ==
  /\ pc \in {"cache_save", "cache_writing", "cache_written"}
  /\ cache_file' = save_alert_cache(cache_file, alerted_symbols, FALSE)
  /\ pc' = "cache_idle"
  /\ UNCHANGED <<alerted_symbols, temp_file, last_saved>>
  /\ CacheFrame

\* The process dies: what it held in memory is gone, the files stay.
CacheCrash ==
  /\ pc \in {"cache_idle", "cache_save", "cache_writing", "cache_written"}
  /\ pc' = "cache_crashed"
  /\ alerted_symbols' = {}
  /\ UNCHANGED <<cache_file, temp_file, last_saved>>
  /\ CacheFrame

\* A fresh process constructs the monitor: _load_alert_cache.
CacheRestart ==
  /\ pc = "cache_crashed"
  /\ alerted_symbols' = load_alert_cache(cache_file)
  /\ pc' = "cache_idle"
  /\ UNCHANGED <<cache_file, temp_file, last_saved>>
  /\ CacheFrame

NextCache ==
  \/ CacheMutate
  \/ SaveWriting
  \/ SaveWritten
  \/ SaveReplace
  \/ SaveFails
  \/ CacheCrash
  \/ CacheRestart

SpecCache == InitCache /\ [][NextCache]_vars

\* ------ _parse_candles, VolumeAnalyzer and check_symbol_volume, taken alone
\* All sequences over S of length 0..n.
SeqsUpTo(S, n) == UNION {[1..k -> S] : k \in 0..n}

\* Raw records: positional arrays at two times, a field-named object, an
\* array that is too short, a value that is no record, and an array with
\* a field float() rejects.
RawRecords ==
  { RawCandle(1, 100, 10),
    RawCandle(2, 100, 30),
    [RawCandle(1, 100, 20) EXCEPT !.shape = "dict"],
    [RawCandle(2, 100, 10) EXCEPT !.fields = 5],
    [RawCandle(1, 100, 10) EXCEPT !.shape = "other"],
    [RawCandle(2, 100, 10) EXCEPT !.numeric = FALSE] }

\* Parsed candles of the given volumes, at times 1, 2, ... and with a
\* close that differs from candle to candle.
CandlesOf(vols) ==
  [k \in 1..Len(vols) |->
     [time |-> k, open |-> 100, close |-> 100 + k, high |-> 100 + k,
      low |-> 100, volume |-> vols[k]]]

Volumes == {0, 1, 3}

\* The arguments of one call: a raw batch for _parse_candles, or candles
\* with the analyzer's settings and the current-volume override.
Args(raw, candles, sma_period, volume_multiplier, current_volume) ==
  [raw |-> raw, candles |-> candles, sma_period |-> sma_period,
   volume_multiplier |-> volume_multiplier, current_volume |-> current_volume]

\* Nineteen candles of volume 10 and one of 60, under the defaults.
QuietExample == CandlesOf([k \in 1..SmaPeriodDefault |->
                            IF k = SmaPeriodDefault THEN 60 ELSE 10])

ParseArgs ==
  { Args(raw, <<>>, SmaPeriodDefault, VolumeMultiplierDefault, None) :
      raw \in SeqsUpTo(RawRecords, MaxLen) }

AnalyzerArgs ==
  { Args(<<>>, CandlesOf(v), w, m, cv) :
      v \in SeqsUpTo(Volumes, MaxLen), w \in 1..MaxWindow, m \in {1, 2},
      cv \in {None, Some(2)} }
  \cup { Args(<<>>, QuietExample, SmaPeriodDefault, VolumeMultiplierDefault, cv) :
           cv \in {None, Some(70)} }

\* The arguments of one check_symbol_volume: the candle response (n
\* candles, the exchange being free to return more than the count asked
\* for; quiet, or the last one a spike under either multiplier) and the
\* monitor's sma_period and volume_multiplier.
CheckArgs ==
  { [data |-> Some(Payload("dict", "0000", {}, Batch(n, 10, last, 100))),
     sma_period |-> w, volume_multiplier |-> m] :
      n \in 0..RequestedCandles + MaxExtra, last \in {10, 70},
      w \in 1..RequestedCandles + MaxExtra,
      m \in {1, VolumeMultiplierDefault} }

InitAnalyzer ==
  /\ pc = "call"
  /\ arg \in ParseArgs \cup AnalyzerArgs \cup CheckArgs
  /\ ret = None
  /\ cache_file = CacheFile("missing", <<>>)
  /\ temp_file = CacheFile("missing", <<>>)
  /\ alerted_symbols = {}
  /\ last_saved = {}
  /\ MonitorAtRest
  /\ RequestAtRest

Returned(fn, out) ==
  /\ ret' = Some([fn |-> fn, out |-> out])
  /\ pc' = "ret"
  /\ UNCHANGED <<arg, config, store, now, sweep, step, request, backoff, exit,
                 last_sweep>>

CallParseCandles ==
  /\ pc = "call" /\ arg \in ParseArgs
  /\ Returned("parse_candles", parse_candles(arg.raw))

CallVolumeSma ==
  /\ pc = "call" /\ arg \in AnalyzerArgs
  /\ Returned("calculate_volume_sma",
              calculate_volume_sma(arg.candles, arg.sma_period))

CallVolumeSpike ==
  /\ pc = "call" /\ arg \in AnalyzerArgs
  /\ Returned("check_volume_spike",
              check_volume_spike(arg.candles, arg.current_volume,
                                 arg.sma_period, arg.volume_multiplier))

CallAnalyzeMarket ==
  /\ pc = "call" /\ arg \in AnalyzerArgs
  /\ Returned("analyze_market",
              analyze_market(arg.candles, "BTC", arg.sma_period,
                             arg.volume_multiplier))

CallCheckSymbolVolume ==
  /\ pc = "call" /\ arg \in CheckArgs
  /\ Returned("check_symbol_volume",
              check_symbol_volume(arg.data, "BTC", arg.sma_period,
                                  arg.volume_multiplier, 0))

NextAnalyzer ==
  \/ CallParseCandles
  \/ CallVolumeSma
  \/ CallVolumeSpike
  \/ CallAnalyzeMarket
  \/ CallCheckSymbolVolume

SpecAnalyzer == InitAnalyzer /\ [][NextAnalyzer]_vars

\* ------------------------------------------------------------ properties
\* The symbol had an alerting step in the sweep before and has had one in
\* this sweep, and no reset fell between the two dedup checks.
SpikedTwice(s) == prev[s].out # "none" /\ cur[s].out # "none"
NoResetBetween(s) == cur[s].epoch = prev[s].epoch

\* C1 as stated: a symbol that spikes on two consecutive sweeps with no
\* reset between them has send_alert invoked exactly once across the two.
C1_ExactlyOnce ==
  \A s \in Symbols :
    (SpikedTwice(s) /\ NoResetBetween(s)) => prev[s].calls + cur[s].calls = 1

\* C1 amended: for such a symbol send_alert is invoked exactly once across the
\* two sweeps when the first sweep's invocation succeeded, not at all when
\* the symbol was already in the alerted set, and in both sweeps when the
\* first invocation failed; it is never invoked after a success.
C1_Dedup ==
  \A s \in Symbols :
    (SpikedTwice(s) /\ NoResetBetween(s)) =>
      /\ prev[s].out = "ok" =>
           prev[s].calls + cur[s].calls = 1 /\ cur[s].out = "skipped"
      /\ prev[s].out = "skipped" =>
           prev[s].calls + cur[s].calls = 0 /\ cur[s].out = "skipped"
      /\ prev[s].out = "failed" =>
           prev[s].calls = 1 /\ cur[s].calls = 1

C1_Witness ==
  \E s \in Symbols :
    /\ prev[s].out = "ok" /\ cur[s].out = "skipped"
    /\ NoResetBetween(s)
    /\ prev[s].calls + cur[s].calls = 1

\* What the reset policy left at the start of the alerting step in hand.
AfterResetAlerted == IF reset_fired THEN {} ELSE step_alerted
AfterResetFile == IF reset_fired THEN CacheFile("list", <<>>) ELSE step_file

\* The alerting step of symbols[i] is over.
StepOver == pc = "delay" /\ analysis # None

\* C2 as stated: the symbol is added and the store persisted only on the
\* notifier's success; on its failure the alerted set and the cache file
\* are as they were when the alerting step began, and the notifier is
\* called at most once for the symbol in the sweep.
C2_FailureLeavesStore ==
  /\ StepOver =>
       LET s == analysis[1].symbol IN
       /\ cur[s].out = "ok" => s \in alerted_symbols
       /\ cur[s].out # "ok" =>
            alerted_symbols = step_alerted /\ cache_file = step_file
  /\ \A s \in Symbols : cur[s].calls <= 1

\* The dedup check and the notifier have acted on symbol s in this step.
Notified(s) == pc = "dedup" /\ pc' = "delay" /\ s = analysis[1].symbol

\* C2 amended: the symbol is added and the store persisted with it only on
\* the notifier's success; on its failure the alerted set and the cache
\* file are as the reset policy of the same step left them (cleared when
\* the reset fired, else unchanged), the symbol is not in the set, the
\* notifier is called at most once for the symbol in the sweep, and a
\* symbol that is not in the set is notified whenever it reaches the step.
C2_OnlyOnSuccess ==
  /\ [](StepOver =>
          LET s == analysis[1].symbol IN
          /\ cur[s].out = "ok" =>
               /\ alerted_symbols = AfterResetAlerted \cup {s}
               /\ cache_file = CacheFile("list", SortedSeq(alerted_symbols))
          /\ cur[s].out # "ok" =>
               alerted_symbols = AfterResetAlerted /\ cache_file = AfterResetFile
          /\ cur[s].out = "failed" => s \notin alerted_symbols)
  /\ [](\A s \in Symbols : cur[s].calls <= 1)
  /\ [][\A s \in Symbols :
          /\ (s \in alerted_symbols' /\ s \notin alerted_symbols) =>
               Notified(s) /\ cur'[s].out = "ok"
          /\ (Notified(s) /\ s \notin alerted_symbols) =>
               cur'[s].calls = cur[s].calls + 1]_vars

C2_Witness ==
  /\ StepOver
  /\ cur[analysis[1].symbol].out = "failed"
  /\ prev[analysis[1].symbol].out = "failed"
  /\ ~reset_fired
  /\ step_alerted # {}
  /\ alerted_symbols = step_alerted

\* The reset interval has elapsed since the last reset.
Elapsed ==
  /\ alert_reset_hours # NoReset
  /\ last_reset_time # NoTime
  /\ now - last_reset_time >= alert_reset_hours

\* C3: when the reset interval has elapsed as the alerting step runs, the
\* reset policy clears the alerted set, sets the reset time to now and saves
\* the empty set before the dedup check, and the notifier is then invoked
\* for the symbol, alerted before or not.
C3_ResetThenNotify ==
  /\ [][(pc = "alert" /\ pc' = "dedup" /\ Elapsed) =>
          /\ alerted_symbols' = {}
          /\ last_reset_time' = now
          /\ cache_file' = CacheFile("list", <<>>)
          /\ reset_fired']_vars
  /\ [][\A s \in Symbols :
          (Notified(s) /\ reset_fired) => cur'[s].calls = cur[s].calls + 1]_vars
  /\ [](\A s \in Symbols :
          (prev[s].out \in {"ok", "skipped"} /\ cur[s].out # "none"
             /\ ~NoResetBetween(s)) => cur[s].calls = 1)

C3_Witness ==
  /\ StepOver
  /\ reset_fired
  /\ analysis[1].symbol \in step_alerted
  /\ prev[analysis[1].symbol].out = "ok"
  /\ cur[analysis[1].symbol].calls = 1
  /\ last_reset_time = now

\* C4 as stated: with a reset interval configured, the reset time is set
\* once the first sweep has run, whatever the sweep found.
C4_SetByFirstSweep ==
  (alert_reset_hours # NoReset /\ last_sweep = "completed") =>
    last_reset_time # NoTime

\* C4 amended: with a reset interval configured, the reset time is unset
\* after construction and is established by the reset policy of the first
\* alerting step, as the time of that step and without clearing the set;
\* sweeps without an alerting step leave it unset.
C4_SetByFirstAlertingStep ==
  /\ [](pc = "main" => last_reset_time = NoTime)
  /\ []((alert_reset_hours # NoReset /\ pc = "dedup") => last_reset_time # NoTime)
  /\ [][(last_reset_time = NoTime /\ last_reset_time' # NoTime) =>
          /\ pc = "alert" /\ pc' = "dedup"
          /\ alert_reset_hours # NoReset
          /\ last_reset_time' = now
          /\ alerted_symbols' = alerted_symbols]_vars
  /\ [][last_reset_time # NoTime => last_reset_time' # NoTime]_vars

C4_Witness ==
  /\ alert_reset_hours # NoReset
  /\ last_sweep = "completed"
  /\ pc = "dedup"
  /\ now > 0
  /\ last_reset_time = now
  /\ ~reset_fired
  /\ alerted_symbols = {}
  /\ \A s \in Symbols : prev[s].out = "none" /\ cur[s].out = "none"

\* C5: once an alerting step has finished, loading the cache file yields
\* exactly the alerted set in memory.
C5_CacheMirrorsSet ==
  pc \notin {"alert", "dedup"} => load_alert_cache(cache_file) = alerted_symbols

C5_Witness ==
  /\ StepOver
  /\ reset_fired
  /\ step_alerted = Symbols
  /\ cur[analysis[1].symbol].out = "ok"
  /\ \E s \in Symbols : prev[s].out = "failed"
  /\ load_alert_cache(cache_file) = {analysis[1].symbol}

\* run_continuous has been left after its loop was entered.
LoopLeft == pc \in {"returned", "raised"}

\* C6: on every path out of the loop of run_continuous, _save_alert_cache
\* has run before the function is left, and the file holds the alerted set.
C6_SavedOnExit ==
  LoopLeft =>
    /\ exit_saved = "yes"
    /\ load_alert_cache(cache_file) = alerted_symbols

C6_Witness ==
  /\ pc = "raised"
  /\ interrupted_at = "backoff"
  /\ exit_saved = "yes"
  /\ alerted_symbols # {}

\* C7 as stated: an interrupt that arrives while run_continuous sweeps,
\* sleeps or waits in backoff makes it return normally, the state saved.
C7_InterruptReturns ==
  (LoopLeft /\ interrupted_at \in InTry \cup {"backoff"}) =>
    pc = "returned" /\ exit_exc = "none" /\ exit_saved = "yes"

\* C8: an exception leaving a sweep adds one to the failure counter and
\* starts a wait of base min(300, 30 * 2^(failures-1)) plus a jitter of
\* 0..min(10, base/5) seconds; a completed sweep resets the counter, so
\* the first failure after one waits with base 30; the process lives on.
C8_Backoff ==
  /\ [](pc = "backoff" =>
          /\ consecutive_failures >= 1
          /\ base_backoff = CASE consecutive_failures = 1 -> 30
                              [] consecutive_failures = 2 -> 60
                              [] consecutive_failures = 3 -> 120
                              [] consecutive_failures = 4 -> 240
                              [] OTHER -> 300
          /\ wait_seconds - base_backoff >= 0
          /\ wait_seconds - base_backoff <= 10
          /\ 5 * (wait_seconds - base_backoff) <= base_backoff)
  /\ [](pc = "sleep" => consecutive_failures = 0)
  /\ [](mode = "continuous" => pc # "crashed")
  /\ [][(markets_result' = "raised" /\ pc = "sweep" /\ mode = "continuous") =>
          /\ pc' = "backoff"
          /\ consecutive_failures' = consecutive_failures + 1
          /\ (last_sweep = "completed" => base_backoff' = 30)]_vars

C8_Witness ==
  /\ pc = "backoff"
  /\ consecutive_failures = 5
  /\ base_backoff = 300
  /\ wait_seconds = 310

\* C9: when get_krw_markets returns an empty list, the sweep ends at once:
\* no candles are fetched and the notifier is not called; the sweep counts
\* as completed, so the failure counter is zero and the loop goes to its
\* normal sleep (a single-shot run is over), not into a backoff wait.
C9_EmptyListCompletes ==
  [][(pc = "sweep" /\ markets_result' = "returned" /\ symbols' = <<>>) =>
       /\ pc' = IF mode = "continuous" THEN "sleep" ELSE "done"
       /\ last_sweep' = "completed"
       /\ consecutive_failures' = 0
       /\ base_backoff' = 0 /\ wait_seconds' = 0
       /\ checked' = <<>>
       /\ \A s \in Symbols : cur'[s].calls = 0
       /\ alerted_symbols' = alerted_symbols /\ cache_file' = cache_file]_vars

C9_Witness ==
  /\ pc = "sleep"
  /\ markets_result = "returned"
  /\ symbols = <<>>
  /\ last_sweep = "completed"
  /\ consecutive_failures = 0
  /\ checked = <<>>
  /\ \E s \in Symbols : prev[s].out = "ok"

\* C10: a call of _request_json makes at most max_retries + 1 attempts,
\* makes no attempt after one that succeeded, returns None after exactly
\* max_retries + 1 failed attempts, and never raises.
C10_Attempts ==
  /\ Len(req_log) <= max_retries + 1
  /\ \A k \in 1..Len(req_log) : req_log[k] = "ok" => k = Len(req_log)
  /\ pc = "req" => \A k \in 1..Len(req_log) : req_log[k] # "ok"
  /\ pc = "resp" =>
       /\ req_log # <<>>
       /\ IF req_log[Len(req_log)] = "ok"
          THEN data # None
          ELSE data = None /\ Len(req_log) = max_retries + 1
  /\ pc \in {"req", "resp"}

C10_Witness ==
  /\ pc = "resp"
  /\ max_retries = 2
  /\ req_log = <<"timeout", "network", "exception">>
  /\ data = None

\* The JSON received is a mapping whose status is not '0000'.
DomainError(d) == d # None /\ d[1].shape = "dict" /\ d[1].status # "0000"

\* C11: a response that succeeds at transport level ends the call, so one
\* that carries an error status is not retried, whatever max_retries is: it
\* is the only response of the call and its last attempt, and the caller
\* returns failure on it (an empty list from get_krw_markets, None from
\* get_candlestick and get_current_ticker) without raising.
C11_DomainErrorNotRetried ==
  /\ \A k \in 1..Len(req_log) :
       req_log[k] = "ok" => (k = Len(req_log) /\ pc = "resp" /\ data # None)
  /\ (pc = "resp" /\ DomainError(data)) =>
       /\ req_log[Len(req_log)] = "ok"
       /\ Cardinality({k \in 1..Len(req_log) : req_log[k] = "ok"}) = 1
       /\ req_for = "markets" =>
            get_krw_markets(data) = [raised |-> FALSE, markets |-> <<>>]
       /\ req_for = "candles" =>
            get_candlestick(data) = [raised |-> FALSE, candles |-> None]
       /\ req_for = "ticker" =>
            get_current_ticker(data) = [raised |-> FALSE, ticker |-> None]

C11_Witness ==
  /\ pc = "resp"
  /\ max_retries = MaxRetriesDefault
  /\ req_for = "candles"
  /\ req_log = <<"ok">>
  /\ DomainError(data)

\* C12: the target file always loads as the set of the last save that
\* completed: a completed save makes it load as exactly the set saved, no
\* step in the middle of a save and no crash touches it, and the process
\* started after a crash loads the set saved before.
C12_Durable ==
  /\ [](load_alert_cache(cache_file) = last_saved)
  /\ [][(pc = "cache_written" /\ pc' = "cache_idle" /\ cache_file' # cache_file) =>
          /\ load_alert_cache(cache_file') = alerted_symbols
          /\ cache_file' = save_alert_cache(cache_file, alerted_symbols, TRUE)]_vars
  /\ [][(pc \in {"cache_save", "cache_writing"} \/ pc' = "cache_crashed") =>
          cache_file' = cache_file]_vars
  /\ [][(pc = "cache_crashed" /\ pc' = "cache_idle") =>
          alerted_symbols' = last_saved]_vars

C12_Witness ==
  /\ pc = "cache_crashed"
  /\ temp_file = CacheFile("list", <<"BTC", "ETH">>)
  /\ cache_file = CacheFile("list", <<"BTC">>)
  /\ last_saved = {"BTC"}

\* C13 as stated: get_krw_markets never raises: whatever the ticker
\* endpoint answered, it returned the sorted symbol list or an empty list.
C13_NeverRaises ==
  markets_result # "none" =>
    /\ markets_result = "returned"
    /\ symbols = SortedSeq(Range(symbols))

\* The check of a symbol failed on what the candle request returned: no
\* candles (no data, an error status) or an exception (a payload that is
\* no mapping, a record float() rejects).
CheckFailed(d) == get_candlestick(d).raised \/ get_candlestick(d).candles = None

\* C14: a failed check is caught and the symbol skipped: the step leaves
\* the store alone, calls no notifier and goes to the delay; the symbols
\* are checked in list order, each once, all of them when the sweep
\* completes; and the loop goes on to the next symbol or to its end only
\* from the delay, whatever the check gave.
C14_SkipAndContinue ==
  /\ [](checked = SubSeq(symbols, 1, Len(checked)))
  /\ [](pc = "check" => Len(checked) = i - 1)
  /\ [](pc \in {"alert", "dedup", "delay"} => Len(checked) = i)
  /\ []((pc \in {"sleep", "done"} /\ last_sweep = "completed") => checked = symbols)
  /\ [][(pc = "check" /\ pc' \notin {"finally", "crashed"} /\ CheckFailed(data')) =>
          /\ pc' = "delay"
          /\ analysis' = None
          /\ checked' = Append(checked, symbols[i])
          /\ UNCHANGED <<store, cur, symbols, i>>]_vars
  /\ [][(pc \in {"check", "alert", "dedup"}) =>
          pc' \in {"alert", "dedup", "delay", "finally", "crashed"}]_vars
  /\ [][(pc = "delay" /\ pc' \notin {"finally", "crashed"}) =>
          IF i < Len(symbols)
          THEN pc' = "check" /\ i' = i + 1 /\ symbols' = symbols
          ELSE pc' \in {"sleep", "done"} /\ last_sweep' = "completed"]_vars

C14_Witness ==
  /\ pc = "delay"
  /\ i = 1 /\ Len(symbols) = 2
  /\ data # None /\ get_candlestick(data).raised
  /\ analysis = None
  /\ checked = <<symbols[1]>>

\* A function has returned: its name and what it gave.
Gave(fn) == pc = "ret" /\ ret[1].fn = fn

\* How often x occurs in q.
Count(q, x) == Cardinality({k \in 1..Len(q) : q[k] = x})

\* A raw record that is a candle: of a shape taken, every field numeric.
WellFormed(r) == Accepted(r) /\ r.numeric

\* C15 as stated: whatever malformed records a raw batch mixes in (too
\* short, no record at all, a field that is not numeric), parsing does not
\* fail and returns the well-formed records, ascending by time.
C15_MalformedSkipped ==
  Gave("parse_candles") =>
    LET out == ret[1].out
        good == SelectSeq(arg.raw, WellFormed)
    IN
    /\ out.ok
    /\ Len(out.candles) = Len(good)
    /\ \A k \in 1..Len(good) :
         Count(out.candles, Candle(good[k])) = Count(good, good[k])
    /\ \A k \in 1..Len(out.candles) - 1 :
         out.candles[k].time <= out.candles[k + 1].time

\* The volume the call compares: the override, or the last candle's.
CurrentVolume == IF arg.current_volume = None
                 THEN arg.candles[Len(arg.candles)].volume
                 ELSE arg.current_volume[1]

\* The sum of the volumes of the last sma_period candles.
WindowSum == SumVolume(SubSeq(arg.candles, Len(arg.candles) - arg.sma_period + 1,
                              Len(arg.candles)))

\* There are sma_period candles and their SMA is not zero.
SmaUsable == Len(arg.candles) >= arg.sma_period /\ WindowSum # 0

\* C16: with at least sma_period candles and an SMA that is not zero,
\* check_volume_spike reports a spike exactly when current volume / SMA >=
\* multiplier, equality included, and reports that ratio; 19 candles of
\* volume 10 and one of 60 give ratio 4.8 and no spike under the defaults,
\* a current volume of 70 against their SMA of 12.5 gives 5.6 and a spike.
C16_InclusiveThreshold ==
  (Gave("check_volume_spike") /\ SmaUsable) =>
    LET out == ret[1].out IN
    /\ out.is_spike <=>
         CurrentVolume * arg.sma_period >= arg.volume_multiplier * WindowSum
    /\ out.current_volume = CurrentVolume
    /\ out.sma_volume[1] = WindowSum /\ out.sma_volume[2] = arg.sma_period
    /\ out.multiplier[1] * WindowSum = CurrentVolume * arg.sma_period * out.multiplier[2]
    /\ out.multiplier[2] # 0
    /\ (arg.candles = QuietExample /\ arg.current_volume = None) =>
         /\ ~out.is_spike
         /\ 10 * out.multiplier[1] = 48 * out.multiplier[2]
    /\ (arg.candles = QuietExample /\ arg.current_volume = Some(70)) =>
         /\ out.is_spike
         /\ 2 * out.sma_volume[1] = 25 * out.sma_volume[2]
         /\ 10 * out.multiplier[1] = 56 * out.multiplier[2]

C16_Witness ==
  /\ Gave("check_volume_spike")
  /\ SmaUsable
  /\ arg.sma_period = 2 /\ Len(arg.candles) = 3
  /\ CurrentVolume * arg.sma_period = arg.volume_multiplier * WindowSum
  /\ ret[1].out.is_spike

\* C17: analyze_market returns a result exactly when check_volume_spike on
\* the same candles (no override) reports a spike, and the result carries
\* the last candle's close and time, and the volumes of that check.
C17_ResultIffSpike ==
  Gave("analyze_market") =>
    LET out == ret[1].out
        spike == check_volume_spike(arg.candles, None, arg.sma_period,
                                    arg.volume_multiplier)
        last == arg.candles[Len(arg.candles)]
    IN
    /\ out # None <=> spike.is_spike
    /\ out # None =>
         /\ out[1].current_price = last.close
         /\ out[1].timestamp = last.time
         /\ out[1].symbol = "BTC"
         /\ out[1].current_volume = spike.current_volume
         /\ out[1].sma_volume = spike.sma_volume
         /\ out[1].multiplier = spike.multiplier

C17_Witness ==
  /\ Gave("analyze_market")
  /\ Len(arg.candles) = 3
  /\ ret[1].out # None
  /\ ret[1].out[1].current_price = 103
  /\ ret[1].out[1].timestamp = 3

\* C20: with fewer candles than sma_period calculate_volume_sma gives None;
\* and whenever the SMA is None or zero, check_volume_spike reports no
\* spike, multiplier 0 and candles_needed = sma_period - len(candles), a
\* value that is zero or negative when the candles suffice and their SMA
\* is zero.
C20_NoSpikeWithoutSma ==
  /\ Gave("calculate_volume_sma") =>
       /\ Len(arg.candles) < arg.sma_period => ret[1].out = None
       /\ Len(arg.candles) >= arg.sma_period =>
            ret[1].out = Some(<<WindowSum, arg.sma_period>>)
  /\ (Gave("check_volume_spike") /\ ~SmaUsable) =>
       LET out == ret[1].out IN
       /\ ~out.is_spike
       /\ out.multiplier[1] = 0 /\ out.multiplier[2] # 0
       /\ out.sma_volume[1] = 0
       /\ out.candles_needed = arg.sma_period - Len(arg.candles)

C20_Witness ==
  /\ Gave("check_volume_spike")
  /\ Len(arg.candles) = 3 /\ arg.sma_period = 2
  /\ WindowSum = 0
  /\ ret[1].out.candles_needed = -1
  /\ ~ret[1].out.is_spike

\* C19, in tenths of a second: the delay slept before attempt N >= 2 has
\* base min(30, 3 * 2^(N-2)), that is 3, 6, 12, 24 and then 30, plus a
\* jitter of 0..2; nothing is slept before the first attempt, after the
\* final one or after an attempt that succeeded.
C19_RequestDelay ==
  /\ [][(pc = "req" /\ pc' = "req" /\ req_log' # <<>>) =>
          LET N == Len(req_log') + 1 IN
          /\ Len(req_log') = Len(req_log) + 1
          /\ N <= max_retries + 1
          /\ base_delay' = CASE N = 2 -> 3
                              [] N = 3 -> 6
                              [] N = 4 -> 12
                              [] N = 5 -> 24
                              [] OTHER -> 30
          /\ jitter_delay' >= 0 /\ jitter_delay' <= 2]_vars
  /\ [][(pc = "req" /\ pc' = "resp") =>
          base_delay' = base_delay /\ jitter_delay' = jitter_delay]_vars
  /\ []((pc = "req" /\ req_log = <<>>) => (base_delay = 0 /\ jitter_delay = 0))
  /\ []((pc = "resp" /\ Len(req_log) = 1) => (base_delay = 0 /\ jitter_delay = 0))

C19_Witness ==
  /\ pc = "req"
  /\ Len(req_log) = 5
  /\ base_delay = 30
  /\ jitter_delay = 2

\* The spike the analyzer detects in what the candle request returned,
\* before the liquidity filter: None, or the analysis.
Detected(d, symbol) ==
  LET r == get_candlestick(d) IN
  IF r.raised \/ r.candles = None THEN None
  ELSE IF Len(r.candles[1]) < MinCandles THEN None
  ELSE analyze_market(r.candles[1], symbol, SmaPeriodDefault,
                      VolumeMultiplierDefault)

\* C18: with min_krw_volume > 0 a detected spike whose notional (current
\* volume * current price) is below it is discarded: the check goes to the
\* delay with no analysis, the store and the notifier untouched; a spike
\* whose notional is at or above it, and every spike when min_krw_volume
\* is 0, goes to the alerting step with that notional; and a symbol
\* without analysis passes the delay with store and notifier untouched.
C18_LiquidityFilter ==
  /\ [][(pc = "check" /\ pc' \notin {"finally", "crashed"}
          /\ Detected(data', symbols[i]) # None) =>
          LET a == Detected(data', symbols[i])[1]
              notional == a.current_volume * a.current_price
          IN
          IF min_krw_volume > 0 /\ notional < min_krw_volume
          THEN /\ pc' = "delay"
               /\ analysis' = None
               /\ UNCHANGED <<store, cur>>
          ELSE /\ pc' = "alert"
               /\ analysis' # None
               /\ analysis'[1].symbol = symbols[i]
               /\ analysis'[1].notional_krw = notional]_vars
  /\ [](pc \in {"alert", "dedup"} =>
          /\ analysis # None
          /\ min_krw_volume = 0 \/ analysis[1].notional_krw >= min_krw_volume)
  /\ [][(pc = "delay" /\ pc' \notin {"finally", "crashed"} /\ analysis = None) =>
          UNCHANGED <<store, cur>>]_vars

C18_Witness ==
  /\ pc = "delay"
  /\ min_krw_volume = 7000
  /\ Detected(data, symbols[i]) # None
  /\ Detected(data, symbols[i])[1].current_volume = 70
  /\ Detected(data, symbols[i])[1].current_price = 1
  /\ analysis = None
  /\ \E s \in Symbols : prev[s].out = "ok" /\ prev[s].epoch = NoTime

\* The alerted set, the reset time and the cache file.
AlertStore == <<alerted_symbols, last_reset_time, cache_file>>

\* No symbol has reached the alerting step in the sweep in hand, or in the
\* sweep that has just ended.
NoAlertingStep == sweep_store # None

\* What the candle request returned is a spike that passes the liquidity
\* filter.
PassesFilter(d, symbol) ==
  /\ Detected(d, symbol) # None
  /\ \/ min_krw_volume = 0
     \/ Detected(d, symbol)[1].current_volume * Detected(d, symbol)[1].current_price
          >= min_krw_volume

\* C21: the reset policy runs only inside the alerting step.  A sweep in
\* which no symbol reached the alerting step has the alerted set, the
\* reset time and the cache file it began with, whatever the clock says;
\* inside run_continuous' loop they change only in the alerting step of a
\* symbol whose spike passes the liquidity filter; and the reset time
\* changes only in the reset policy at the start of that step.
C21_ResetOnlyInAlertingStep ==
  /\ [](NoAlertingStep =>
          /\ AlertStore = sweep_store[1]
          /\ pc \notin {"alert", "dedup"}
          /\ \A s \in Symbols : cur[s].out = "none")
  /\ []((last_sweep # "none" /\ pc \in {"sleep", "done", "backoff", "crashed"}
          /\ \A s \in Symbols : cur[s].out = "none") => NoAlertingStep)
  /\ [][AlertStore' # AlertStore =>
          \/ pc = "finally"
          \/ /\ pc \in {"alert", "dedup"}
             /\ PassesFilter(data, symbols[i])
             /\ analysis # None]_vars
  /\ [][last_reset_time' # last_reset_time => pc = "alert" /\ pc' = "dedup"]_vars

\* A sweep has completed without an alerting step, more than the reset
\* interval after the last reset, and the alerted symbol is still there.
C21_Witness ==
  /\ NoAlertingStep
  /\ pc = "sleep" /\ last_sweep = "completed"
  /\ checked # <<>>
  /\ Elapsed
  /\ now - last_reset_time > alert_reset_hours
  /\ alerted_symbols # {}
  /\ load_alert_cache(cache_file) = alerted_symbols

\* The candles check_symbol_volume received from get_candlestick.
Received == get_candlestick(arg.data).candles[1]

\* What analyze_market makes of them under the call's settings.
Analysed == analyze_market(Received, "BTC", arg.sma_period, arg.volume_multiplier)

\* check_symbol_volume gives a result only with at least 20 candles and at
\* least sma_period candles, and with 20 or more it gives what
\* analyze_market gives; with sma_period < 20 a symbol with sma_period to
\* 19 candles is skipped.
FixedMinimum ==
  LET out == ret[1].out IN
  /\ out # None => Len(Received) >= MinCandles /\ Len(Received) >= arg.sma_period
  /\ Len(Received) >= MinCandles =>
       /\ out # None <=> Analysed # None
       /\ out # None =>
            /\ out[1].current_volume = Analysed[1].current_volume
            /\ out[1].sma_volume = Analysed[1].sma_volume
            /\ out[1].current_price = Analysed[1].current_price
  /\ (arg.sma_period < MinCandles /\ Len(Received) >= arg.sma_period
        /\ Len(Received) < MinCandles) => out = None

\* C22 as stated: the fixed minimum of 20 candles whatever the window, and
\* with a window above the 50 candles asked for no symbol gives a spike.
C22_NoSpikeAboveRequested ==
  Gave("check_symbol_volume") =>
    /\ FixedMinimum
    /\ arg.sma_period > RequestedCandles => ret[1].out = None

\* C22 amended: the fixed minimum of 20 candles whatever the window, and
\* with a window above the 50 candles asked for no symbol gives a spike
\* as long as the exchange returns no more candles than were asked for.
C22_FixedMinimum ==
  Gave("check_symbol_volume") =>
    /\ FixedMinimum
    /\ (arg.sma_period > RequestedCandles /\ Len(Received) <= RequestedCandles) =>
         ret[1].out = None

\* Nineteen candles, the last a spike over a window of ten: skipped.
C22_Witness ==
  /\ Gave("check_symbol_volume")
  /\ arg.sma_period = 10
  /\ Len(Received) = MinCandles - 1
  /\ Analysed # None
  /\ ret[1].out = None

====
